---- MODULE Spec2Model ----
(***************************************************************************)
(* Inventory forecasting pipeline of systemML.py: feature engineering per  *)
(* product, ordered train/holdout split, evaluation of two regressors,     *)
(* selection of the best one and the N-day forecast.                       *)
(*                                                                         *)
(* Representation of numbers:                                              *)
(*   dates        day ordinals, 0 = 2024-01-01 (a Monday)                  *)
(*   prices       integer cents                                            *)
(*   stock        integer units                                            *)
(*   MA_3D, MA_7D, TREND_3D   multiples of 1/MAScale unit (exact means of  *)
(*                up to 7 integers)                                        *)
(*   predictions  hundredths of a unit (PScale per unit)                   *)
(***************************************************************************)
EXTENDS Integers, Sequences, FiniteSets, TLC

VARIABLES pc, df, todo, product_id, features_list, df_features,
          rf_model, gb_model, eval, best, forecast

vars == <<pc, df, todo, product_id, features_list, df_features,
          rf_model, gb_model, eval, best, forecast>>

----------------------------------------------------------------------------
(* Bounds of the model *)

MaxLen == 3

MaxPre == 2

MaxLong == 8

MaxDays == 2

(* Program constants *)

RestockLevel == 95

LowStockLevel == 20

ReplenishLevel == 30

Window3 == 3

Window7 == 7

ClipMax == 100

ClipMin == 0

(* least common multiple of the window counts 1..7 *)
MAScale == 3 * 4 * 5 * 7

(* two decimals *)
PScale == 10 * 10

(* a name not bound yet *)
NoValue == [none |-> TRUE]

NoProduct == 0 - 1

----------------------------------------------------------------------------
(* Input tables (the CSV read at line 37) *)

SkuA == 1000

SkuB == SkuA + 1

SkuAbsent == SkuA + 2

(* 2024-02-27 and 2024-12-29 *)
StartA == 31 + 26

StartB == 366 - 3

Obs == { [q |-> 15, p |-> 1000, f |-> 0], [q |-> 95, p |-> 1200, f |-> 1] }

Min(a, b) == IF a < b THEN a ELSE b

Max(a, b) == IF a > b THEN a ELSE b

Abs(a) == IF a < 0 THEN -a ELSE a

SeqsUpTo(S, n) == UNION { [1..k -> S] : k \in 0..n }

RawRow(id, date, o) ==
    [ID_PRODUTO |-> id, DATA_EVENTO |-> date,
     QUANTIDADE_ESTOQUE |-> o.q, PRECO |-> o.p, FLAG_PROMOCAO |-> o.f]

Series(id, start, os) == [k \in 1..Len(os) |-> RawRow(id, start + k - 1, os[k])]

(* The file lists the later product first, so the sort at line 57 has work to do *)
FileOrder(a, b) == b \o a

Tables(maxA, maxB) ==
    { FileOrder(Series(SkuA, StartA, oa), Series(SkuB, StartB, ob)) :
        oa \in SeqsUpTo(Obs, maxA), ob \in SeqsUpTo(Obs, maxB) }

----------------------------------------------------------------------------
(* Calendar *)

IsLeap(y) == (y % 4 = 0 /\ y % 100 # 0) \/ y % 400 = 0

YearLen(y) == IF IsLeap(y) THEN 366 ELSE 365

MonthLen(y, m) ==
    IF m = 2 THEN (IF IsLeap(y) THEN 29 ELSE 28)
    ELSE IF m \in {4, 6, 9, 11} THEN 30 ELSE 31

RECURSIVE YearOf(_, _)
YearOf(y, n) == IF n < YearLen(y) THEN <<y, n>> ELSE YearOf(y + 1, n - YearLen(y))

RECURSIVE MonthOf(_, _, _)
MonthOf(y, m, n) ==
    IF n < MonthLen(y, m) THEN <<m, n + 1>> ELSE MonthOf(y, m + 1, n - MonthLen(y, m))

(* <<year, month, day>> of a day ordinal; strftime('%Y-%m-%d') prints these three *)
YMD(ord) ==
    LET yn == YearOf(2024, ord)
        md == MonthOf(yn[1], 1, yn[2])
    IN  <<yn[1], md[1], md[2]>>

DayOfWeek(ord) == ord % 7

Weekend(ord) == IF DayOfWeek(ord) \in {5, 6} THEN 1 ELSE 0

----------------------------------------------------------------------------
(* Lines 56-62: sort by (ID_PRODUTO, DATA_EVENTO), reset the index, calendar columns *)

RowLeq(r, s) ==
    \/ r.ID_PRODUTO < s.ID_PRODUTO
    \/ r.ID_PRODUTO = s.ID_PRODUTO /\ r.DATA_EVENTO <= s.DATA_EVENTO

RECURSIVE Insert(_, _)
Insert(r, s) ==
    IF s = <<>> THEN <<r>>
    ELSE IF RowLeq(r, Head(s)) THEN <<r>> \o s
    ELSE <<Head(s)>> \o Insert(r, Tail(s))

RECURSIVE SortValues(_)
SortValues(s) ==
    IF s = <<>> THEN <<>>
    ELSE Insert(s[Len(s)], SortValues(SubSeq(s, 1, Len(s) - 1)))

Extend(r, more) ==
    [x \in (DOMAIN r) \cup (DOMAIN more) |-> IF x \in DOMAIN more THEN more[x] ELSE r[x]]

(* reset_index(drop=True): the index label of a row is its 0-based position *)
ResetIndex(s) == [k \in 1..Len(s) |-> Extend(s[k], [idx |-> k - 1])]

CalendarColumns(r) ==
    Extend(r, [DAY_OF_WEEK |-> DayOfWeek(r.DATA_EVENTO),
               DAY         |-> YMD(r.DATA_EVENTO)[3],
               MONTH       |-> YMD(r.DATA_EVENTO)[2],
               WEEKEND     |-> Weekend(r.DATA_EVENTO)])

PrepareTable(raw) ==
    LET s == ResetIndex(SortValues(raw))
    IN  [k \in 1..Len(s) |-> CalendarColumns(s[k])]

RECURSIVE Unique(_)
Unique(s) ==
    IF s = <<>> THEN <<>>
    ELSE LET u == Unique(SubSeq(s, 1, Len(s) - 1))
             v == s[Len(s)]
         IN  IF \E k \in 1..Len(u) : u[k] = v THEN u ELSE Append(u, v)

Ids(t) == [k \in 1..Len(t) |-> t[k].ID_PRODUTO]

----------------------------------------------------------------------------
(* Lines 67-100: the features of one product *)

IsProduct(pid, r) == r.ID_PRODUTO = pid

ProdRows(t, pid) == SelectSeq(t, LAMBDA r : IsProduct(pid, r))

(* shift(1) - current, NaN at the first row filled with 0 (lines 71-72) *)
PrevDaySales(p, k) ==
    IF k = 1 THEN 0 ELSE p[k - 1].QUANTIDADE_ESTOQUE - p[k].QUANTIDADE_ESTOQUE

(* shift(1), NaN at the first row filled with the row's own price (line 75) *)
PreviousPrice(p, k) == IF k = 1 THEN p[k].PRECO ELSE p[k - 1].PRECO

(* rolling(window=w, min_periods=1).mean(): the sliding sum adds the entering
   value and removes the one leaving the window; the count grows up to w *)
RECURSIVE RollSum(_, _, _)
RollSum(p, k, w) ==
    IF k = 0 THEN 0
    ELSE RollSum(p, k - 1, w) + p[k].QUANTIDADE_ESTOQUE
         - (IF k > w THEN p[k - w].QUANTIDADE_ESTOQUE ELSE 0)

RECURSIVE RollCount(_, _)
RollCount(k, w) ==
    IF k = 0 THEN 0 ELSE RollCount(k - 1, w) + 1 - (IF k > w THEN 1 ELSE 0)

RollingMeanZeroPad(p, k, w) == (RollSum(p, k, w) * MAScale) \div w

RollingMean(p, k, w) == (RollSum(p, k, w) * MAScale) \div RollCount(k, w)

(* restocks = index labels of the product's rows holding at least 95 (line 90) *)
Restocks(p) == { p[k].idx : k \in { j \in 1..Len(p) : p[j].QUANTIDADE_ESTOQUE >= RestockLevel } }

SetMax(S) == CHOOSE x \in S : \A y \in S : y <= x

DaysSinceRestockStrict(p, k) ==
    LET i    == p[k].idx
        upto == { r \in Restocks(p) : r < i }
    IN  IF Cardinality(upto) > 0 THEN i - SetMax(upto) ELSE i

(* lines 93-98: idx is the row's index label in the sorted table *)
DaysSinceRestock(p, k) ==
    LET i    == p[k].idx
        upto == { r \in Restocks(p) : r <= i }
    IN  IF Cardinality(upto) > 0 THEN i - SetMax(upto) ELSE i

FeatureRow(p, k) ==
    LET ma3 == RollingMean(p, k, Window3)
        ma7 == RollingMean(p, k, Window7)
        pp  == PreviousPrice(p, k)
    IN  Extend(p[k],
          [PREV_DAY_SALES     |-> PrevDaySales(p, k),
           PREVIOUS_PRICE     |-> pp,
           PRICE_VARIATION    |-> p[k].PRECO - pp,
           MA_3D              |-> ma3,
           MA_7D              |-> ma7,
           TREND_3D           |-> p[k].QUANTIDADE_ESTOQUE * MAScale - ma3,
           LOW_STOCK          |-> IF p[k].QUANTIDADE_ESTOQUE < LowStockLevel THEN 1 ELSE 0,
           NEEDS_REPLENISH    |-> IF p[k].QUANTIDADE_ESTOQUE < ReplenishLevel THEN 1 ELSE 0,
           DAYS_SINCE_RESTOCK |-> DaysSinceRestock(p, k)])

ProdFeatures(t, pid) ==
    LET p == ProdRows(t, pid)
    IN  [k \in 1..Len(p) |-> FeatureRow(p, k)]

RECURSIVE Flatten(_)
Flatten(ss) == IF ss = <<>> THEN <<>> ELSE Head(ss) \o Flatten(Tail(ss))

(* pd.concat(features_list, ignore_index=True) (line 102) *)
ConcatFrames(ss) == ResetIndex(Flatten(ss))

(* The whole feature engine on a raw table: lines 56-102 *)
FeatureEngine(raw) ==
    LET t == PrepareTable(raw)
        u == Unique(Ids(t))
    IN  ConcatFrames([k \in 1..Len(u) |-> ProdFeatures(t, u[k])])

----------------------------------------------------------------------------
(* Lines 145-182: ordered 80/20 split and the two fitted regressors *)

(* dropna() drops nothing: every derived column has its fallback (line 145) *)
DfModel(f) == f

(* train_test_split(test_size=0.2, shuffle=False): ceil(0.2 * n) rows are held
   out and the rest, from the start of the table, train *)
NTest(n) == (n + 4) \div 5

NTrain(n) == n - NTest(n)

XTest(f) == SubSeq(DfModel(f), NTrain(Len(f)) + 1, NTrain(Len(f)) + NTest(Len(f)))

(* A fitted regressor is an opaque function of the feature vector; these three
   stand for one that answers below the range, one inside it that follows
   DAYS_SINCE_RESTOCK, and one above the range *)
Models == { [base |-> -250,  w |-> 0],
            [base |-> 5003,  w |-> 104],
            [base |-> 10430, w |-> 0] }

Predict(m, x) == m.base + m.w * x.DAYS_SINCE_RESTOCK

----------------------------------------------------------------------------
(* Lines 189-200: clipped holdout predictions and the metrics *)

ClipNoFloor(v) == IF v > ClipMax * PScale THEN ClipMax * PScale ELSE v

(* np.clip(v, 0, 100) *)
Clip(v) ==
    IF v < ClipMin * PScale THEN ClipMin * PScale
    ELSE IF v > ClipMax * PScale THEN ClipMax * PScale ELSE v

RECURSIVE SumSeq(_)
SumSeq(s) == IF s = <<>> THEN 0 ELSE Head(s) + SumSeq(Tail(s))

(* r2_score: nan below two samples; with a constant target 1 for a perfect fit
   and 0 otherwise; else 1 - SS_res / SS_tot, kept as <<numerator, denominator>> *)
R2Score(y, pred) ==
    LET n     == Len(y)
        ssres == SumSeq([k \in 1..n |-> (y[k] - pred[k]) * (y[k] - pred[k])])
        sy    == SumSeq(y)
        nsst  == n * SumSeq([k \in 1..n |-> y[k] * y[k]]) - sy * sy
    IN  IF n < 2 THEN "nan"
        ELSE IF nsst = 0 THEN (IF ssres = 0 THEN <<1, 1>> ELSE <<0, 1>>)
        ELSE <<nsst - n * ssres, nsst>>

(* a > b on R2 values; every comparison with nan is false *)
Greater(a, b) ==
    /\ a # "nan"
    /\ b # "nan"
    /\ IF a[2] = b[2] THEN a[1] > b[1] ELSE a[1] * b[2] > b[1] * a[2]

(* RMSE is kept as the squared errors' sum and count, MAE as the absolute
   errors' sum and count, MAPE as its terms |y - pred| / (y + 1) *)
Metrics(y, pred) ==
    LET n == Len(y)
    IN  [RMSE |-> <<SumSeq([k \in 1..n |-> (y[k] - pred[k]) * (y[k] - pred[k])]), n>>,
         MAE  |-> <<SumSeq([k \in 1..n |-> Abs(y[k] - pred[k])]), n>>,
         MAPE |-> [k \in 1..n |-> <<Abs(y[k] - pred[k]), y[k] + PScale>>],
         R2   |-> R2Score(y, pred)]

Evaluation(f, rf, gb) ==
    LET xt   == XTest(f)
        y    == [k \in 1..Len(xt) |-> xt[k].QUANTIDADE_ESTOQUE * PScale]
        rawr == [k \in 1..Len(xt) |-> Predict(rf, xt[k])]
        rawg == [k \in 1..Len(xt) |-> Predict(gb, xt[k])]
        pr   == [k \in 1..Len(xt) |-> Clip(rawr[k])]
        pg   == [k \in 1..Len(xt) |-> Clip(rawg[k])]
    IN  [y_test |-> y, raw_rf |-> rawr, raw_gb |-> rawg,
         y_pred_rf |-> pr, y_pred_gb |-> pg,
         rf |-> Metrics(y, pr), gb |-> Metrics(y, pg)]

----------------------------------------------------------------------------
(* Lines 202-209: selection *)

SelectBestOnTieForest(e, rf, gb) ==
    IF ~Greater(e.gb.R2, e.rf.R2)
    THEN [best_model |-> rf, model_name |-> "Random Forest", best_metrics |-> e.rf]
    ELSE [best_model |-> gb, model_name |-> "Gradient Boosting", best_metrics |-> e.gb]

SelectBest(e, rf, gb) ==
    IF Greater(e.rf.R2, e.gb.R2)
    THEN [best_model |-> rf, model_name |-> "Random Forest", best_metrics |-> e.rf]
    ELSE [best_model |-> gb, model_name |-> "Gradient Boosting", best_metrics |-> e.gb]

----------------------------------------------------------------------------
(* Lines 220-261: forecast_next_days *)

FutureDateFromZero(last_date, d) == last_date + d - 1

(* last_date + timedelta(days=d) *)
FutureDate(last_date, d) == last_date + d

FeaturesFutureNoSales(gid, last_row, d) ==
    LET future_date == FutureDate(last_row.DATA_EVENTO, d)
    IN  [ID_PRODUTO         |-> gid,
         PRECO              |-> last_row.PRECO,
         FLAG_PROMOCAO      |-> 0,
         DAY_OF_WEEK        |-> DayOfWeek(future_date),
         DAY                |-> YMD(future_date)[3],
         MONTH              |-> YMD(future_date)[2],
         WEEKEND            |-> Weekend(future_date),
         PREV_DAY_SALES     |-> 0,
         PREVIOUS_PRICE     |-> last_row.PRECO,
         PRICE_VARIATION    |-> 0,
         MA_3D              |-> last_row.MA_3D,
         MA_7D              |-> last_row.MA_7D,
         TREND_3D           |-> last_row.TREND_3D,
         DAYS_SINCE_RESTOCK |-> last_row.DAYS_SINCE_RESTOCK + d]

(* lines 231-246; gid is the module-level name product_id read at line 232 *)
FeaturesFuture(gid, last_row, d) ==
    LET future_date == FutureDate(last_row.DATA_EVENTO, d)
    IN  [ID_PRODUTO         |-> gid,
         PRECO              |-> last_row.PRECO,
         FLAG_PROMOCAO      |-> 0,
         DAY_OF_WEEK        |-> DayOfWeek(future_date),
         DAY                |-> YMD(future_date)[3],
         MONTH              |-> YMD(future_date)[2],
         WEEKEND            |-> Weekend(future_date),
         PREV_DAY_SALES     |-> last_row.PREV_DAY_SALES,
         PREVIOUS_PRICE     |-> last_row.PRECO,
         PRICE_VARIATION    |-> 0,
         MA_3D              |-> last_row.MA_3D,
         MA_7D              |-> last_row.MA_7D,
         TREND_3D           |-> last_row.TREND_3D,
         DAYS_SINCE_RESTOCK |-> last_row.DAYS_SINCE_RESTOCK + d]

(* round(v, 1): hundredths to tenths, halves to the even tenth *)
Round1(v) ==
    LET q == v \div 10
        r == v % 10
    IN  IF r < 5 THEN q
        ELSE IF r > 5 THEN q + 1
        ELSE IF q % 2 = 0 THEN q ELSE q + 1

RECURSIVE SqrtBetween(_, _, _)
SqrtBetween(n, lo, hi) ==
    IF lo >= hi THEN lo
    ELSE LET mid == (lo + hi + 1) \div 2
         IN  IF mid * mid <= n THEN SqrtBetween(n, mid, hi)
             ELSE SqrtBetween(n, lo, mid - 1)

(* np.sqrt(mean_squared_error(...)), to the hundredth of a unit below it *)
Rmse(metrics) == SqrtBetween(metrics.RMSE[1] \div metrics.RMSE[2], 0, 2 * ClipMax * PScale)

(* best_metrics['RMSE'] * 1.5 (line 251) *)
ErrorMargin(metrics) == (Rmse(metrics) * 3) \div 2

(* The loop of lines 228-259 and the frame returned at line 261 *)
ForecastFrame(f, gid, sel, pid, days) ==
    LET product_data == ProdRows(f, pid)
        last_row     == product_data[Len(product_data)]
        xs   == [d \in 1..days |-> FeaturesFuture(gid, last_row, d)]
        raw  == [d \in 1..days |-> Predict(sel.best_model, xs[d])]
        pred == [d \in 1..days |-> Clip(raw[d])]
        em   == ErrorMargin(sel.best_metrics)
    IN  [arg |-> pid, days |-> days, status |-> "ok",
         x_future |-> xs, raw |-> raw,
         predictions |->
           [d \in 1..days |->
              [Date            |-> YMD(FutureDate(last_row.DATA_EVENTO, d)),
               Predicted_Stock |-> Round1(pred[d]),
               Lower_Limit     |-> Round1(Max(ClipMin * PScale, pred[d] - em)),
               Upper_Limit     |-> Round1(Min(ClipMax * PScale, pred[d] + em)),
               Confidence      |-> "85%"]]]

(* iloc[-1] on the empty selection raises IndexError (line 223) *)
ForecastError(pid, days) ==
    [arg |-> pid, days |-> days, status |-> "IndexError",
     x_future |-> <<>>, raw |-> <<>>, predictions |-> <<>>]

----------------------------------------------------------------------------
(* The script as a state machine *)

InitWith(tables) ==
    /\ pc = "load"
    /\ df \in tables
    /\ todo = <<>>
    /\ product_id = NoProduct
    /\ features_list = <<>>
    /\ df_features = <<>>
    /\ rf_model = NoValue
    /\ gb_model = NoValue
    /\ eval = NoValue
    /\ best = NoValue
    /\ forecast = NoValue

Init == InitWith(Tables(MaxLen, MaxLen))

InitFE == InitWith(Tables(MaxPre, MaxLong))

(* lines 56-62 and the iterator of line 67 *)
Prepare ==
    /\ pc = "load"
    /\ df' = PrepareTable(df)
    /\ todo' = Unique(Ids(df'))
    /\ pc' = "features"
    /\ UNCHANGED <<product_id, features_list, df_features, rf_model, gb_model,
                   eval, best, forecast>>

(* one iteration of the loop at lines 67-100 *)
FeatureStep ==
    /\ pc = "features"
    /\ todo # <<>>
    /\ product_id' = Head(todo)
    /\ features_list' = Append(features_list, ProdFeatures(df, Head(todo)))
    /\ todo' = Tail(todo)
    /\ UNCHANGED <<pc, df, df_features, rf_model, gb_model, eval, best, forecast>>

(* line 102 *)
Concat ==
    /\ pc = "features"
    /\ todo = <<>>
    /\ features_list # <<>>
    /\ df_features' = ConcatFrames(features_list)
    /\ pc' = "prepare"
    /\ UNCHANGED <<df, todo, product_id, features_list, rf_model, gb_model,
                   eval, best, forecast>>

(* line 102 with nothing to concatenate: ValueError *)
ConcatFail ==
    /\ pc = "features"
    /\ todo = <<>>
    /\ features_list = <<>>
    /\ pc' = "error"
    /\ UNCHANGED <<df, todo, product_id, features_list, df_features, rf_model,
                   gb_model, eval, best, forecast>>

(* lines 145-182 *)
Train ==
    /\ pc = "prepare"
    /\ NTrain(Len(df_features)) > 0
    /\ \E m1 \in Models, m2 \in Models :
         /\ rf_model' = m1
         /\ gb_model' = m2
    /\ pc' = "evaluate"
    /\ UNCHANGED <<df, todo, product_id, features_list, df_features, eval, best,
                   forecast>>

(* line 150 with an empty training partition: ValueError *)
SplitFail ==
    /\ pc = "prepare"
    /\ NTrain(Len(df_features)) = 0
    /\ pc' = "error"
    /\ UNCHANGED <<df, todo, product_id, features_list, df_features, rf_model,
                   gb_model, eval, best, forecast>>

(* lines 189-200 *)
Evaluate ==
    /\ pc = "evaluate"
    /\ eval' = Evaluation(df_features, rf_model, gb_model)
    /\ pc' = "select"
    /\ UNCHANGED <<df, todo, product_id, features_list, df_features, rf_model,
                   gb_model, best, forecast>>

(* lines 202-209 *)
Select ==
    /\ pc = "select"
    /\ best' = SelectBest(eval, rf_model, gb_model)
    /\ pc' = "forecast"
    /\ UNCHANGED <<df, todo, product_id, features_list, df_features, rf_model,
                   gb_model, eval, forecast>>

ForecastArgs == {SkuA, SkuB, SkuAbsent}

(* a call of forecast_next_days that returns *)
Forecast ==
    /\ pc = "forecast"
    /\ \E pid \in ForecastArgs, days \in 0..MaxDays :
         /\ ProdRows(df_features, pid) # <<>>
         /\ forecast' = ForecastFrame(df_features, product_id, best, pid, days)
    /\ UNCHANGED <<pc, df, todo, product_id, features_list, df_features, rf_model,
                   gb_model, eval, best>>

(* a call of forecast_next_days that raises *)
ForecastFail ==
    /\ pc = "forecast"
    /\ \E pid \in ForecastArgs, days \in 0..MaxDays :
         /\ ProdRows(df_features, pid) = <<>>
         /\ forecast' = ForecastError(pid, days)
    /\ UNCHANGED <<pc, df, todo, product_id, features_list, df_features, rf_model,
                   gb_model, eval, best>>

Next ==
    \/ Prepare
    \/ FeatureStep
    \/ Concat
    \/ ConcatFail
    \/ Train
    \/ SplitFail
    \/ Evaluate
    \/ Select
    \/ Forecast
    \/ ForecastFail

Spec == Init /\ [][Next]_vars

NextFE ==
    \/ Prepare
    \/ FeatureStep
    \/ Concat
    \/ ConcatFail

SpecFE == InitFE /\ [][NextFE]_vars

----------------------------------------------------------------------------
(* Vocabulary of the properties *)

Skus == {SkuA, SkuB}

HasFeatures == pc \in {"prepare", "evaluate", "select", "forecast"}

SkuRows(pid) == ProdRows(df_features, pid)

Stock(p, k) == p[k].QUANTIDADE_ESTOQUE

NoRestockUpTo(p, k) == \A j \in 1..k : Stock(p, j) < RestockLevel

(* the sum of the stock levels at positions a..b of a series, taken directly *)
StockSum(p, a, b) == SumSeq([j \in 1..(b - a + 1) |-> Stock(p, a + j - 1)])

MeanIs(value, p, k, w) ==
    LET cnt == Min(k, w)
    IN  value * cnt = MAScale * StockSum(p, k - cnt + 1, k)

(* the feature row of a product's most recent observation *)
LastVector(pid) ==
    LET p == SkuRows(pid)
    IN  CHOOSE r \in { p[k] : k \in 1..Len(p) } :
          \A k \in 1..Len(p) : p[k].DATA_EVENTO <= r.DATA_EVENTO

Returned == forecast # NoValue /\ forecast.status = "ok"

DateBefore(a, b) ==
    \/ a[1] < b[1]
    \/ a[1] = b[1] /\ a[2] < b[2]
    \/ a[1] = b[1] /\ a[2] = b[2] /\ a[3] < b[3]

InRange(v) == ClipMin * PScale <= v /\ v <= ClipMax * PScale

ClippedFrom(raw, v) ==
    /\ InRange(v)
    /\ InRange(raw) => v = raw
    /\ raw < ClipMin * PScale => v = ClipMin * PScale
    /\ raw > ClipMax * PScale => v = ClipMax * PScale

R2Equal(a, b) == a # "nan" /\ b # "nan" /\ ~Greater(a, b) /\ ~Greater(b, a)

Derived ==
    {"PREV_DAY_SALES", "PREVIOUS_PRICE", "PRICE_VARIATION", "MA_3D", "MA_7D",
     "TREND_3D", "LOW_STOCK", "NEEDS_REPLENISH", "DAYS_SINCE_RESTOCK"}

Observed == {"DATA_EVENTO", "QUANTIDADE_ESTOQUE", "PRECO", "FLAG_PROMOCAO"}

SameOn(fields, r, s) == \A x \in fields : r[x] = s[x]

----------------------------------------------------------------------------
(* C1: for every SKU and every index i of its own series (from 0) with no
   observation at or before i holding stock >= 95, days_since_restock = i,
   wherever the SKU sits in the table. *)
C1_DistanceFromSeriesStart ==
    HasFeatures =>
      \A pid \in Skus :
        LET p == SkuRows(pid)
        IN  \A k \in 1..Len(p) :
              NoRestockUpTo(p, k) => p[k].DAYS_SINCE_RESTOCK = k - 1

(* C2 as stated: days_since_restock is 0 if and only if the observation has
   stock >= 95. *)
C2_ZeroExactlyAtRestock ==
    HasFeatures =>
      \A pid \in Skus :
        LET p == SkuRows(pid)
        IN  \A k \in 1..Len(p) :
              (p[k].DAYS_SINCE_RESTOCK = 0) <=> (Stock(p, k) >= RestockLevel)

(* C2 amended: days_since_restock is 0 at every observation with stock >= 95;
   at an observation with stock < 95 it is 0 only at the SKU's first
   observation. *)
C2_ZeroAtRestockOrSeriesStart ==
    HasFeatures =>
      \A pid \in Skus :
        LET p == SkuRows(pid)
        IN  \A k \in 1..Len(p) :
              /\ Stock(p, k) >= RestockLevel => p[k].DAYS_SINCE_RESTOCK = 0
              /\ (p[k].DAYS_SINCE_RESTOCK = 0 /\ Stock(p, k) < RestockLevel) => k = 1

C2_Witness ==
    /\ HasFeatures
    /\ \E pid \in Skus :
         LET p == SkuRows(pid)
         IN  /\ Len(p) >= 4
             /\ Stock(p, 1) < RestockLevel /\ p[1].DAYS_SINCE_RESTOCK = 0
             /\ Stock(p, 2) < RestockLevel /\ p[2].DAYS_SINCE_RESTOCK > 0
             /\ Stock(p, 3) >= RestockLevel /\ p[3].DAYS_SINCE_RESTOCK = 0
             /\ Stock(p, 4) < RestockLevel /\ p[4].DAYS_SINCE_RESTOCK = 1

(* C9: for every SKU, window W in {3, 7} and index i, moving_avg_W is the mean
   of the stock levels of that SKU's last min(i+1, W) observations ending at
   i; at the first observation both equal that observation's stock level. *)
C9_MovingAverages ==
    HasFeatures =>
      \A pid \in Skus :
        LET p == SkuRows(pid)
        IN  /\ \A k \in 1..Len(p) :
                 /\ MeanIs(p[k].MA_3D, p, k, Window3)
                 /\ MeanIs(p[k].MA_7D, p, k, Window7)
            /\ Len(p) > 0 =>
                 /\ p[1].MA_3D = Stock(p, 1) * MAScale
                 /\ p[1].MA_7D = Stock(p, 1) * MAScale

C9_Witness ==
    /\ HasFeatures
    /\ Len(SkuRows(SkuA)) > 0
    /\ LET p == SkuRows(SkuB)
       IN  /\ Len(p) > Window7
           /\ Stock(p, 1) # Stock(p, Len(p))
           /\ p[Len(p)].MA_7D # p[Len(p) - 1].MA_7D
           /\ p[Len(p)].MA_3D # p[Len(p)].MA_7D
           /\ p[2].MA_3D # p[1].MA_3D

(* C8: for any two input tables whose observations of a SKU agree at every
   index up to and including i, every derived field of that SKU's feature
   vectors at indices <= i is the same in both runs. *)
C8_NoLookahead ==
    HasFeatures =>
      \A other \in Tables(MaxLen, MaxLen) :
        LET g == FeatureEngine(other)
        IN  \A pid \in Skus :
              LET p == SkuRows(pid)
                  q == ProdRows(g, pid)
              IN  \A i \in 1..Min(Len(p), Len(q)) :
                    (\A j \in 1..i : SameOn(Observed, p[j], q[j]))
                      => \A j \in 1..i : SameOn(Derived, p[j], q[j])

(* C3 as stated: the model with the strictly higher holdout R2 is retained with
   its own metrics, and on equal R2 the Forest variant is retained. *)
C3_TieKeepsForest ==
    best # NoValue =>
      /\ Greater(eval.rf.R2, eval.gb.R2) =>
           best.model_name = "Random Forest" /\ best.best_metrics = eval.rf
      /\ Greater(eval.gb.R2, eval.rf.R2) =>
           best.model_name = "Gradient Boosting" /\ best.best_metrics = eval.gb
      /\ R2Equal(eval.rf.R2, eval.gb.R2) =>
           best.model_name = "Random Forest" /\ best.best_metrics = eval.rf

(* C3 amended: the model with the strictly higher holdout R2 is retained with
   its own metrics, and on equal R2 the Boosted variant is retained with its
   metrics. *)
C3_TieKeepsBoosted ==
    best # NoValue =>
      /\ Greater(eval.rf.R2, eval.gb.R2) =>
           /\ best.model_name = "Random Forest"
           /\ best.best_model = rf_model
           /\ best.best_metrics = eval.rf
      /\ Greater(eval.gb.R2, eval.rf.R2) =>
           /\ best.model_name = "Gradient Boosting"
           /\ best.best_model = gb_model
           /\ best.best_metrics = eval.gb
      /\ R2Equal(eval.rf.R2, eval.gb.R2) =>
           /\ best.model_name = "Gradient Boosting"
           /\ best.best_model = gb_model
           /\ best.best_metrics = eval.gb

C3_Witness ==
    /\ best # NoValue
    /\ R2Equal(eval.rf.R2, eval.gb.R2)
    /\ rf_model # gb_model
    /\ eval.rf # eval.gb
    /\ best.best_metrics = eval.gb

(* C4 as stated: at every offset the synthetic vector's prev_day_consumption,
   previous_price, moving_avg_3, moving_avg_7 and trend_3 equal the same field
   of the SKU's last feature vector. *)
C4_HeldAtSameField ==
    Returned =>
      \A d \in 1..Len(forecast.x_future) :
        SameOn({"PREV_DAY_SALES", "PREVIOUS_PRICE", "MA_3D", "MA_7D", "TREND_3D"},
               forecast.x_future[d], LastVector(forecast.arg))

(* C4 amended: prev_day_consumption, moving_avg_3, moving_avg_7 and trend_3
   equal the same field of the SKU's last feature vector, previous_price equals
   that vector's current price, and the five are the same at every offset. *)
C4_HeldWithLastPrice ==
    Returned =>
      /\ \A d \in 1..Len(forecast.x_future) :
           /\ SameOn({"PREV_DAY_SALES", "MA_3D", "MA_7D", "TREND_3D"},
                     forecast.x_future[d], LastVector(forecast.arg))
           /\ forecast.x_future[d].PREVIOUS_PRICE = LastVector(forecast.arg).PRECO
      /\ \A d, e \in 1..Len(forecast.x_future) :
           SameOn({"PREV_DAY_SALES", "PREVIOUS_PRICE", "MA_3D", "MA_7D", "TREND_3D"},
                  forecast.x_future[d], forecast.x_future[e])

C4_Witness ==
    /\ Returned
    /\ Len(forecast.x_future) >= 2
    /\ LastVector(forecast.arg).PREVIOUS_PRICE # LastVector(forecast.arg).PRECO
    /\ LastVector(forecast.arg).PREV_DAY_SALES # 0
    /\ forecast.x_future[2].PREVIOUS_PRICE = LastVector(forecast.arg).PRECO

(* C5: for a SKU of the feature table and a horizon N >= 0 the forecast holds
   exactly N points in offset order, the point at offset d dated d days after
   the SKU's most recent observation, so the dates strictly increase. *)
C5_ContiguousDates ==
    Returned =>
      /\ Len(forecast.predictions) = forecast.days
      /\ \A d \in 1..Len(forecast.predictions) :
           forecast.predictions[d].Date
             = YMD(LastVector(forecast.arg).DATA_EVENTO + d)
      /\ \A d \in 1..(Len(forecast.predictions) - 1) :
           DateBefore(forecast.predictions[d].Date, forecast.predictions[d + 1].Date)

C5_Witness ==
    /\ Returned
    /\ forecast.days >= 2
    /\ Len(forecast.predictions) = forecast.days
    /\ forecast.predictions[1].Date[2] # forecast.predictions[2].Date[2]
    /\ forecast.predictions[2].Date[3] = 1

(* C6: a forecast asked for a SKU that does not occur in the feature table
   fails with NotFoundError and yields no point. *)
C6_NotFoundError ==
    (forecast # NoValue /\ SkuRows(forecast.arg) = <<>>) =>
      /\ forecast.status = "NotFoundError"
      /\ forecast.predictions = <<>>

(* C7: every holdout prediction of both models and every forecast point's
   predicted level is the raw model output clipped to [0, 100]. *)
C7_PredictionsInRange ==
    /\ eval # NoValue =>
         \A k \in 1..Len(eval.y_test) :
           /\ ClippedFrom(eval.raw_rf[k], eval.y_pred_rf[k])
           /\ ClippedFrom(eval.raw_gb[k], eval.y_pred_gb[k])
    /\ Returned =>
         \A d \in 1..Len(forecast.predictions) :
           /\ forecast.predictions[d].Predicted_Stock >= ClipMin * 10
           /\ forecast.predictions[d].Predicted_Stock <= ClipMax * 10
           /\ \E v \in {ClipMin * PScale, ClipMax * PScale, forecast.raw[d]} :
                /\ ClippedFrom(forecast.raw[d], v)
                /\ forecast.predictions[d].Predicted_Stock = Round1(v)

C7_Witness ==
    /\ Returned
    /\ \E k \in 1..Len(eval.y_test) :
         eval.raw_rf[k] < ClipMin * PScale /\ eval.raw_gb[k] > ClipMax * PScale
    /\ \E d \in 1..Len(forecast.predictions) :
         /\ forecast.raw[d] > ClipMax * PScale
         /\ forecast.predictions[d].Predicted_Stock = ClipMax * 10

(* C10: at every offset the sku_id of the synthetic feature vector equals the
   identifier passed to forecast_next_days. *)
C10_OwnSkuIdentifier ==
    Returned =>
      \A d \in 1..Len(forecast.x_future) :
        forecast.x_future[d].ID_PRODUTO = forecast.arg

====
